---- MODULE Spec2Model ----
(***************************************************************************)
(* Goal tracker (src/src/app.ts): the record store, the day model, the     *)
(* plan manager, the conflict detector and the gate sequencer.             *)
(*                                                                         *)
(* Representation.                                                         *)
(*   Date      a JavaScript Date at local midnight, as the number of days  *)
(*             since 2023-01-01 (a Sunday).                                *)
(*   ISODate   the string YYYY-MM-DD, as the tuple <<year, month, day>>;   *)
(*             the zero padding of pad() makes the string order the        *)
(*             lexicographic order of the tuples.                          *)
(*   month key the string YYYY-MM, as the tuple <<year, month>>.           *)
(*   YesNo     "yes", "no", "null".                                        *)
(*   optional  a value that may be undefined is a set: {} or {v}.          *)
(*   Record<K, V>  a function whose DOMAIN is the set of keys present.     *)
(*   number    a weight is a whole number of tenths of a pound; a result   *)
(*             of a division is the fraction <<numerator, denominator>>    *)
(*             in lowest terms.  Arithmetic is exact: the rounding of      *)
(*             floating point is left out.                                 *)
(***************************************************************************)
EXTENDS Integers, Sequences, FiniteSets, TLC

VARIABLES
    appState,   \* this.appState, the in-memory snapshot
    storage,    \* localStorage[STORAGE_KEY]
    today,      \* the Date that new Date() returns
    pc,         \* "constructed" until connectedCallback has run
    last,       \* the handler or method that ran last, and what it saw
    steps,      \* setState calls so far
    ticks       \* midnights passed so far

vars == <<appState, storage, today, pc, last, steps, ticks>>

-----------------------------------------------------------------------------
(* Bounds of the model.                                                    *)

\* setState calls explored from the initial snapshot
MaxSteps == 1
\* midnights that pass during a behaviour
MaxTicks == 1
\* how many days before today the date navigator is taken back
NavBack == 1
\* how many days before today the first load (trackingStart) may lie
MaxBack == 1

-----------------------------------------------------------------------------
(* The calendar of the Date object.                                        *)

IsLeapYear(year) ==
    (year % 4 = 0 /\ year % 100 # 0) \/ year % 400 = 0

\* the leap years before year
LeapYearsBefore(year) ==
    ((year - 1) \div 4) - ((year - 1) \div 100) + ((year - 1) \div 400)

\* the days from 2023-01-01 to the first of January of year
DaysBeforeYear(year) ==
    365 * (year - 2023) + LeapYearsBefore(year) - LeapYearsBefore(2023)

\* the days from the first of January to the first of the month (month
\* index 12 is January of the next year)
DaysBeforeMonth(year, monthIndex) ==
    <<0, 31, 59, 90, 120, 151, 181, 212, 243, 273, 304, 334, 365>>[monthIndex + 1]
    + (IF monthIndex >= 2 /\ IsLeapYear(year) THEN 1 ELSE 0)

\* new Date(year, monthIndex, day): a day out of the month's range (or a
\* month index of 12) rolls over into the neighbouring month (or year).
NewDate(year, monthIndex, day) ==
    DaysBeforeYear(year) + DaysBeforeMonth(year, monthIndex) + day - 1

getFullYear(date) ==
    LET guess == 2023 + (date \div 366)
    IN IF date >= DaysBeforeYear(guess + 1) THEN guess + 1 ELSE guess

getMonth(date) ==
    LET year == getFullYear(date)
        off == date - DaysBeforeYear(year)
        guess == off \div 32
    IN IF off >= DaysBeforeMonth(year, guess + 1) THEN guess + 1 ELSE guess

getDate(date) ==
    LET year == getFullYear(date)
    IN date - DaysBeforeYear(year) - DaysBeforeMonth(year, getMonth(date)) + 1

\* Date.prototype.getDay: 0 is Sunday
getDay(date) == date % 7

formatDate(date) == <<getFullYear(date), getMonth(date) + 1, getDate(date)>>

parseDate(value) == NewDate(value[1], value[2] - 1, value[3])

addDays(date, amount) ==
    NewDate(getFullYear(date), getMonth(date), getDate(date) + amount)

getWeekStart(date) == addDays(date, -getDay(date))

getWeekKey(date) == formatDate(getWeekStart(date))

getMonthKey(date) == <<getFullYear(date), getMonth(date) + 1>>

getDaysInMonth(year, monthIndex) == getDate(NewDate(year, monthIndex + 1, 0))

\* a < b on ISO date strings
IsoLess(a, b) ==
    \/ a[1] < b[1]
    \/ a[1] = b[1] /\ a[2] < b[2]
    \/ a[1] = b[1] /\ a[2] = b[2] /\ a[3] < b[3]

\* Array.prototype.sort() on a set of ISO date strings
RECURSIVE SortDates(_)
SortDates(S) ==
    IF S = {} THEN <<>>
    ELSE LET least == CHOOSE x \in S : \A y \in S : x = y \/ IsoLess(x, y)
         IN <<least>> \o SortDates(S \ {least})

Range(seq) == {seq[i] : i \in DOMAIN seq}

Includes(seq, x) == \E i \in DOMAIN seq : seq[i] = x

-----------------------------------------------------------------------------
(* The data model.                                                         *)

YesNo == {"yes", "no", "null"}

DIET_RULES ==
    <<"nonKetoFruits", "highCarbDairy", "processedFoods", "starchyVeggies",
      "refinedCarbs">>

DietKey == Range(DIET_RULES)

emptyDiet == [k \in DietKey |-> "null"]

createEmptyDay(date) ==
    [date |-> date,
     diet |-> emptyDiet,
     dietException |-> "null",
     dessertPass |-> "null",
     mealPass |-> "null",
     weightMorning |-> {},
     weightNight |-> {},
     weightMorningMissed |-> FALSE,
     weightNightMissed |-> FALSE,
     weightLiftingDone |-> "null",
     waterFastDone |-> "null"]

\* {} of a Record<K, V>
EmptyMap == [k \in {} |-> {}]

\* { ...map, [key]: value }
Put(map, key, value) ==
    [k \in DOMAIN map \cup {key} |-> IF k = key THEN value ELSE map[k]]

\* Object.keys of { ...map, [key]: value }: a new key goes last
PutKey(keys, key) == IF Includes(keys, key) THEN keys ELSE Append(keys, key)

\* the AppState; dayKeys is Object.keys(days), the insertion order of days
defaultState(now) ==
    [days |-> EmptyMap,
     dayKeys |-> <<>>,
     weekPlans |-> EmptyMap,
     fastPlans |-> EmptyMap,
     trackingStart |-> formatDate(now),
     confirmedWeeks |-> EmptyMap,
     confirmedMonths |-> EmptyMap]

-----------------------------------------------------------------------------
(* The record store: localStorage under STORAGE_KEY.                       *)
(* A stored value is missing, text that JSON.parse rejects, or the JSON of *)
(* a Partial<AppState>: each field is present ({v}) or not ({}).           *)

NoFields ==
    [days |-> {}, weekPlans |-> {}, fastPlans |-> {}, trackingStart |-> {},
     confirmedWeeks |-> {}, confirmedMonths |-> {}]

StorageMissing == [kind |-> "missing", value |-> NoFields]

StorageGarbage == [kind |-> "garbage", value |-> NoFields]

\* the JSON text {}
StorageEmptyObject == [kind |-> "json", value |-> NoFields]

\* JSON.stringify(state)
Stringify(state) ==
    [kind |-> "json",
     value |-> [days |-> {[map |-> state.days, keys |-> state.dayKeys]},
                weekPlans |-> {state.weekPlans},
                fastPlans |-> {state.fastPlans},
                trackingStart |-> {state.trackingStart},
                confirmedWeeks |-> {state.confirmedWeeks},
                confirmedMonths |-> {state.confirmedMonths}]]

\* a ?? b
Coalesce(opt, default) == IF opt = {} THEN default ELSE CHOOSE v \in opt : TRUE

loadState(raw, now) ==
    IF raw.kind = "missing" THEN defaultState(now)
    ELSE IF raw.kind = "garbage" THEN defaultState(now)
    ELSE LET parsed == raw.value
             days   == Coalesce(parsed.days, [map |-> EmptyMap, keys |-> <<>>])
         IN [days |-> days.map,
             dayKeys |-> days.keys,
             weekPlans |-> Coalesce(parsed.weekPlans, EmptyMap),
             fastPlans |-> Coalesce(parsed.fastPlans, EmptyMap),
             trackingStart |-> Coalesce(parsed.trackingStart, formatDate(now)),
             confirmedWeeks |-> Coalesce(parsed.confirmedWeeks, EmptyMap),
             confirmedMonths |-> Coalesce(parsed.confirmedMonths, EmptyMap)]

saveState(state) == Stringify(state)

\* variant: the snapshot is replaced in memory only
setStateInMemory(nextState) ==
    /\ appState' = nextState
    /\ storage' = storage

\* this.appState = nextState; saveState(nextState)
setState(nextState) ==
    /\ appState' = nextState
    /\ storage' = saveState(nextState)

-----------------------------------------------------------------------------
(* The mutation methods: each operator is the snapshot its method hands to *)
(* setState, computed from the snapshot s it reads.                        *)

getDayOf(s, date) ==
    IF date \in DOMAIN s.days THEN s.days[date] ELSE createEmptyDay(date)

\* variant: the days map is rebuilt from the updated day alone
updateDayAlone(s, date, updater) ==
    LET current == IF date \in DOMAIN s.days THEN s.days[date]
                   ELSE createEmptyDay(date)
        updated == updater[current]
    IN [s EXCEPT !.days = Put(EmptyMap, date, updated),
                 !.dayKeys = <<date>>]

\* updater is a function on day records, applied to the current record
updateDay(s, date, updater) ==
    LET current == IF date \in DOMAIN s.days THEN s.days[date]
                   ELSE createEmptyDay(date)
        updated == updater[current]
    IN [s EXCEPT !.days = Put(s.days, date, updated),
                 !.dayKeys = PutKey(s.dayKeys, date)]

\* variant: the confirmation survives when the dates do not change
updateWeekPlanKeepsFlag(s, weekKey, dates) ==
    [s EXCEPT !.weekPlans = Put(s.weekPlans, weekKey, [dates |-> dates]),
              !.confirmedWeeks =
                  IF weekKey \in DOMAIN s.weekPlans
                     /\ s.weekPlans[weekKey].dates = dates
                     /\ weekKey \in DOMAIN s.confirmedWeeks
                  THEN @ ELSE Put(@, weekKey, FALSE)]

updateWeekPlan(s, weekKey, dates) ==
    [s EXCEPT !.weekPlans = Put(s.weekPlans, weekKey, [dates |-> dates]),
              !.confirmedWeeks = Put(s.confirmedWeeks, weekKey, FALSE)]

\* variant: a new fast plan also withdraws the confirmation of every week
updateFastPlanResetsWeeks(s, monthKey, dates) ==
    [s EXCEPT !.fastPlans = Put(s.fastPlans, monthKey, [dates |-> dates]),
              !.confirmedMonths = Put(s.confirmedMonths, monthKey, FALSE),
              !.confirmedWeeks = [k \in DOMAIN @ |-> FALSE]]

updateFastPlan(s, monthKey, dates) ==
    [s EXCEPT !.fastPlans = Put(s.fastPlans, monthKey, [dates |-> dates]),
              !.confirmedMonths = Put(s.confirmedMonths, monthKey, FALSE)]

confirmWeekPlan(s, weekKey) ==
    [s EXCEPT !.confirmedWeeks = Put(s.confirmedWeeks, weekKey, TRUE)]

confirmMonthPlan(s, monthKey) ==
    [s EXCEPT !.confirmedMonths = Put(s.confirmedMonths, monthKey, TRUE)]

toggleYesNo(value, next) == IF value = next THEN "null" ELSE next

setDietValue(s, date, key, value) ==
    updateDay(s, date,
        [day \in {getDayOf(s, date)} |->
            [day EXCEPT !.diet = Put(day.diet, key, value)]])

\* variant: the answer is written to every recorded day
setDayValueAllDays(s, date, key, value) ==
    LET written == updateDay(s, date,
            [day \in {getDayOf(s, date)} |-> [day EXCEPT ![key] = value]])
    IN [written EXCEPT !.days =
            [d \in DOMAIN @ |-> [@[d] EXCEPT ![key] = value]]]

setDayValue(s, date, key, value) ==
    updateDay(s, date,
        [day \in {getDayOf(s, date)} |-> [day EXCEPT ![key] = value]])

MissedKey(key) ==
    IF key = "weightMorning" THEN "weightMorningMissed" ELSE "weightNightMissed"

setWeightValue(s, date, key, value) ==
    LET missedKey == MissedKey(key)
    IN updateDay(s, date,
           [day \in {getDayOf(s, date)} |->
               [day EXCEPT ![key] = value,
                           ![missedKey] = IF value # {} THEN FALSE
                                          ELSE day[missedKey]]])

\* variant: marking a weight missed keeps its value
toggleWeightMissedKeepsValue(s, date, key) ==
    LET missedKey == MissedKey(key)
    IN updateDay(s, date,
           [day \in {getDayOf(s, date)} |->
               [day EXCEPT ![missedKey] = ~day[missedKey]]])

toggleWeightMissed(s, date, key) ==
    LET missedKey == MissedKey(key)
    IN updateDay(s, date,
           [day \in {getDayOf(s, date)} |->
               LET nextMissed == ~day[missedKey]
               IN [day EXCEPT ![missedKey] = nextMissed,
                              ![key] = IF nextMissed THEN {} ELSE day[key]]])

-----------------------------------------------------------------------------
(* The queries.                                                            *)

\* Number.isFinite of an optional number
IsFinite(opt) == opt # {}

dietRulesAnswered(day) ==
    \A i \in DOMAIN DIET_RULES : day.diet[DIET_RULES[i]] # "null"

dietRulesAllClear(day) ==
    \A i \in DOMAIN DIET_RULES : day.diet[DIET_RULES[i]] = "no"

\* variant: answered rules count as clear rules
dietRequirementSatisfiedAnswered(day) ==
    \/ day.dietException = "yes"
    \/ day.dessertPass = "yes"
    \/ day.mealPass = "yes"
    \/ dietRulesAnswered(day)

dietRequirementSatisfied(day) ==
    \/ day.dietException = "yes"
    \/ day.dessertPass = "yes"
    \/ day.mealPass = "yes"
    \/ dietRulesAllClear(day)

isLiftingDay(s, date) ==
    LET weekKey == getWeekKey(parseDate(date))
    IN IF weekKey \in DOMAIN s.weekPlans
       THEN Includes(s.weekPlans[weekKey].dates, date)
       ELSE FALSE

isFastDay(s, date) ==
    LET monthKey == getMonthKey(parseDate(date))
    IN IF monthKey \in DOMAIN s.fastPlans
       THEN Includes(s.fastPlans[monthKey].dates, date)
       ELSE FALSE

\* variant: one answered diet rule is enough
isDayCompleteSomeRule(s, day, date) ==
    LET dietNeedsRules == day.dietException # "yes"
        dietRulesComplete ==
            ~dietNeedsRules \/ \E i \in DOMAIN DIET_RULES : day.diet[DIET_RULES[i]] # "null"
        passesAnswered ==
            ~dietNeedsRules \/ (day.dessertPass # "null" /\ day.mealPass # "null")
    IN /\ day.dietException # "null" /\ dietRulesComplete /\ passesAnswered
       /\ (IsFinite(day.weightMorning) \/ day.weightMorningMissed)
       /\ (IsFinite(day.weightNight) \/ day.weightNightMissed)
       /\ (~isLiftingDay(s, date) \/ day.weightLiftingDone # "null")
       /\ (~isFastDay(s, date) \/ day.waterFastDone # "null")

isDayComplete(s, day, date) ==
    LET dietExceptionSet == day.dietException # "null"
        dietNeedsRules == day.dietException # "yes"
        dietRulesComplete == ~dietNeedsRules \/ dietRulesAnswered(day)
        passesAnswered ==
            ~dietNeedsRules \/ (day.dessertPass # "null" /\ day.mealPass # "null")
        dietSectionComplete ==
            dietExceptionSet /\ dietRulesComplete /\ passesAnswered
        weightMorningSet == IsFinite(day.weightMorning) \/ day.weightMorningMissed
        weightNightSet == IsFinite(day.weightNight) \/ day.weightNightMissed
        weightsComplete == weightMorningSet /\ weightNightSet
        liftingRequired == isLiftingDay(s, date)
        liftingComplete == ~liftingRequired \/ day.weightLiftingDone # "null"
        fastRequired == isFastDay(s, date)
        fastComplete == ~fastRequired \/ day.waterFastDone # "null"
    IN dietSectionComplete /\ weightsComplete /\ liftingComplete /\ fastComplete

\* variant: three dates or more
isWeekPlanCompleteAtLeast(s, weekKey) ==
    IF weekKey \in DOMAIN s.weekPlans
    THEN Len(s.weekPlans[weekKey].dates) >= 3
    ELSE FALSE

isWeekPlanComplete(s, weekKey) ==
    IF weekKey \in DOMAIN s.weekPlans
    THEN Len(s.weekPlans[weekKey].dates) = 3
    ELSE FALSE

isWeekPlanConfirmed(s, weekKey) ==
    IF weekKey \in DOMAIN s.confirmedWeeks THEN s.confirmedWeeks[weekKey] ELSE FALSE

isMonthPlanComplete(s, monthKey) ==
    IF monthKey \in DOMAIN s.fastPlans
    THEN Len(s.fastPlans[monthKey].dates) = 3
    ELSE FALSE

isMonthPlanConfirmed(s, monthKey) ==
    IF monthKey \in DOMAIN s.confirmedMonths THEN s.confirmedMonths[monthKey] ELSE FALSE

\* variant: the week plan is asked for before the month plan
getBlockingOverlayWeekFirst(s, now) ==
    LET currentMonthKey == getMonthKey(now)
        currentWeekKey == getWeekKey(now)
        yesterday == formatDate(addDays(now, -1))
    IN IF ~isWeekPlanComplete(s, currentWeekKey)
          \/ ~isWeekPlanConfirmed(s, currentWeekKey)
       THEN [type |-> "week", key |-> currentWeekKey]
       ELSE IF ~isMonthPlanComplete(s, currentMonthKey)
               \/ ~isMonthPlanConfirmed(s, currentMonthKey)
       THEN [type |-> "month", key |-> currentMonthKey]
       ELSE IF parseDate(yesterday) < parseDate(s.trackingStart)
       THEN [type |-> "none", key |-> <<>>]
       ELSE IF isDayComplete(s, getDayOf(s, yesterday), yesterday)
       THEN [type |-> "none", key |-> <<>>]
       ELSE [type |-> "yesterday", key |-> yesterday]

\* variant: the day tracking started on is exempt as well
getBlockingOverlayStartExempt(s, now) ==
    LET currentMonthKey == getMonthKey(now)
        currentWeekKey == getWeekKey(now)
        yesterday == formatDate(addDays(now, -1))
    IN IF ~isMonthPlanComplete(s, currentMonthKey)
          \/ ~isMonthPlanConfirmed(s, currentMonthKey)
       THEN [type |-> "month", key |-> currentMonthKey]
       ELSE IF ~isWeekPlanComplete(s, currentWeekKey)
               \/ ~isWeekPlanConfirmed(s, currentWeekKey)
       THEN [type |-> "week", key |-> currentWeekKey]
       ELSE IF parseDate(yesterday) <= parseDate(s.trackingStart)
       THEN [type |-> "none", key |-> <<>>]
       ELSE IF isDayComplete(s, getDayOf(s, yesterday), yesterday)
       THEN [type |-> "none", key |-> <<>>]
       ELSE [type |-> "yesterday", key |-> yesterday]

\* the BlockingOverlay, or [type |-> "none"] for null; now is new Date()
\* variant: a complete plan passes the gate, confirmed or not
getBlockingOverlayCompleteOnly(s, now) ==
    LET currentMonthKey == getMonthKey(now)
        currentWeekKey == getWeekKey(now)
        yesterday == formatDate(addDays(now, -1))
    IN IF ~isMonthPlanComplete(s, currentMonthKey)
       THEN [type |-> "month", key |-> currentMonthKey]
       ELSE IF ~isWeekPlanComplete(s, currentWeekKey)
       THEN [type |-> "week", key |-> currentWeekKey]
       ELSE IF parseDate(yesterday) < parseDate(s.trackingStart)
       THEN [type |-> "none", key |-> <<>>]
       ELSE IF isDayComplete(s, getDayOf(s, yesterday), yesterday)
       THEN [type |-> "none", key |-> <<>>]
       ELSE [type |-> "yesterday", key |-> yesterday]

\* variant: today's record, once started, has to be complete as well
getBlockingOverlayWithToday(s, now) ==
    LET currentMonthKey == getMonthKey(now)
        currentWeekKey == getWeekKey(now)
        yesterday == formatDate(addDays(now, -1))
        current == formatDate(now)
    IN IF ~isMonthPlanComplete(s, currentMonthKey)
          \/ ~isMonthPlanConfirmed(s, currentMonthKey)
       THEN [type |-> "month", key |-> currentMonthKey]
       ELSE IF ~isWeekPlanComplete(s, currentWeekKey)
               \/ ~isWeekPlanConfirmed(s, currentWeekKey)
       THEN [type |-> "week", key |-> currentWeekKey]
       ELSE IF parseDate(yesterday) < parseDate(s.trackingStart)
       THEN [type |-> "none", key |-> <<>>]
       ELSE IF /\ isDayComplete(s, getDayOf(s, yesterday), yesterday)
               /\ (current \in DOMAIN s.days =>
                      isDayComplete(s, getDayOf(s, current), current))
       THEN [type |-> "none", key |-> <<>>]
       ELSE [type |-> "yesterday", key |-> yesterday]

getBlockingOverlay(s, now) ==
    LET currentMonthKey == getMonthKey(now)
        currentWeekKey == getWeekKey(now)
        yesterday == formatDate(addDays(now, -1))
    IN IF ~isMonthPlanComplete(s, currentMonthKey)
          \/ ~isMonthPlanConfirmed(s, currentMonthKey)
       THEN [type |-> "month", key |-> currentMonthKey]
       ELSE IF ~isWeekPlanComplete(s, currentWeekKey)
               \/ ~isWeekPlanConfirmed(s, currentWeekKey)
       THEN [type |-> "week", key |-> currentWeekKey]
       ELSE IF parseDate(yesterday) < parseDate(s.trackingStart)
       THEN [type |-> "none", key |-> <<>>]
       ELSE IF isDayComplete(s, getDayOf(s, yesterday), yesterday)
       THEN [type |-> "none", key |-> <<>>]
       ELSE [type |-> "yesterday", key |-> yesterday]

\* variant: the week of the other day is not looked at
getPassConflictAnyWeek(s, date, key) ==
    LET hits == {i \in DOMAIN s.dayKeys :
                    /\ s.dayKeys[i] # date
                    /\ s.days[s.dayKeys[i]][key] = "yes"}
    IN IF hits = {} THEN {}
       ELSE {s.dayKeys[CHOOSE i \in hits : \A j \in hits : i <= j]}

\* the first key of Object.keys(days), other than date and in date's week,
\* whose day has the pass; {} for null
getPassConflict(s, date, key) ==
    LET weekKey == getWeekKey(parseDate(date))
        hits == {i \in DOMAIN s.dayKeys :
                    /\ s.dayKeys[i] # date
                    /\ getWeekKey(parseDate(s.dayKeys[i])) = weekKey
                    /\ s.days[s.dayKeys[i]][key] = "yes"}
    IN IF hits = {} THEN {}
       ELSE {s.dayKeys[CHOOSE i \in hits : \A j \in hits : i <= j]}

\* variant: the warning does not look at the day's own answer
PassWarningForAnyAnswer(s, day, date, key) ==
    getPassConflict(s, date, key)

\* renderDietSection: dessertConflict and mealConflict, the date named by
\* the warning under the pass buttons; {} for null
PassWarning(s, day, date, key) ==
    IF day[key] = "yes" THEN getPassConflict(s, date, key) ELSE {}

-----------------------------------------------------------------------------
(* The weight analytics.                                                   *)

RECURSIVE Gcd(_, _)
Gcd(a, b) == IF b = 0 THEN a ELSE Gcd(b, a % b)

\* n / d for n >= 0 and d > 0
Quotient(n, d) == <<n \div Gcd(n, d), d \div Gcd(n, d)>>

\* a + b of two fractions
Plus(a, b) == Quotient(a[1] * b[2] + b[1] * a[2], a[2] * b[2])

\* variant: a single weight is averaged with zero
getDailyAverageHalves(day) ==
    LET morning == day.weightMorning
        night == day.weightNight
    IN IF IsFinite(morning) \/ IsFinite(night)
       THEN {Quotient(Coalesce(morning, 0) + Coalesce(night, 0), 2)}
       ELSE {}

\* {} for null
getDailyAverage(day) ==
    LET morning == day.weightMorning
        night == day.weightNight
    IN IF IsFinite(morning) /\ IsFinite(night)
       THEN {Quotient(Coalesce(morning, 0) + Coalesce(night, 0), 2)}
       ELSE IF IsFinite(morning) THEN {Quotient(Coalesce(morning, 0), 1)}
       ELSE IF IsFinite(night) THEN {Quotient(Coalesce(night, 0), 1)}
       ELSE {}

\* entries.sort((a, b) => a.date.localeCompare(b.date))
RECURSIVE SortByDate(_)
SortByDate(entries) ==
    IF Len(entries) = 0 THEN <<>>
    ELSE LET first == CHOOSE i \in DOMAIN entries :
                          \A j \in DOMAIN entries :
                              \/ IsoLess(entries[i].date, entries[j].date)
                              \/ (entries[i].date = entries[j].date /\ i <= j)
             rest == [k \in 1 .. Len(entries) - 1 |->
                         IF k < first THEN entries[k] ELSE entries[k + 1]]
         IN <<entries[first]>> \o SortByDate(rest)

\* Object.values(days) mapped to { date, value } and filtered, value being
\* the optional number
AverageEntries(s) ==
    SelectSeq([i \in DOMAIN s.dayKeys |->
                  [date |-> s.days[s.dayKeys[i]].date,
                   value |-> getDailyAverage(s.days[s.dayKeys[i]])]],
              LAMBDA entry : IsFinite(entry.value))

\* variant: the entries stay in the order of Object.values
getWeightSeriesUnsorted(s) ==
    [i \in DOMAIN AverageEntries(s) |->
        [date |-> AverageEntries(s)[i].date,
         value |-> Coalesce(AverageEntries(s)[i].value, <<0, 1>>)]]

getWeightSeries(s) ==
    SortByDate([i \in DOMAIN AverageEntries(s) |->
                   [date |-> AverageEntries(s)[i].date,
                    value |-> Coalesce(AverageEntries(s)[i].value, <<0, 1>>)]])

buildDateRange(endDate, days) ==
    [index \in 1 .. days |-> formatDate(addDays(endDate, (index - 1) - (days - 1)))]

\* values.reduce((sum, value) => sum + value, 0)
RECURSIVE Reduce(_, _)
Reduce(values, sum) ==
    IF Len(values) = 0 THEN sum
    ELSE Reduce(Tail(values), Plus(sum, Head(values)))

\* the daily averages of the window that are numbers
WindowValues(s, currentDate, windowSize) ==
    LET endDate == parseDate(currentDate)
        range == buildDateRange(endDate, windowSize)
        found == SelectSeq([i \in DOMAIN range |->
                               getDailyAverage(getDayOf(s, range[i]))],
                           IsFinite)
    IN [i \in DOMAIN found |-> Coalesce(found[i], <<0, 1>>)]

\* variant: the sum is divided by the size of the window
getRollingAverageOverWindow(s, currentDate, windowSize) ==
    LET values == WindowValues(s, currentDate, windowSize)
        sum == Reduce(values, <<0, 1>>)
    IN IF Len(values) = 0 THEN {}
       ELSE {Quotient(sum[1], sum[2] * windowSize)}

\* {} for null
getRollingAverage(s, currentDate, windowSize) ==
    LET values == WindowValues(s, currentDate, windowSize)
        sum == Reduce(values, <<0, 1>>)
    IN IF Len(values) = 0 THEN {}
       ELSE {Quotient(sum[1], sum[2] * Len(values))}

-----------------------------------------------------------------------------
(* The goal charts: one value per charted date, {1}, {0} or {} for null.   *)

CHART_DAYS == 30

\* renderGoalCharts: dates
ChartDates(now) == buildDateRange(now, CHART_DAYS)

dietValues(s, dates) ==
    [i \in DOMAIN dates |->
        LET day == getDayOf(s, dates[i])
            hasData == \/ day.dietException # "null"
                       \/ day.dessertPass # "null"
                       \/ day.mealPass # "null"
                       \/ \E r \in DOMAIN DIET_RULES :
                              day.diet[DIET_RULES[r]] # "null"
        IN IF ~hasData THEN {}
           ELSE IF dietRequirementSatisfied(day) THEN {1} ELSE {0}]

\* variant: the missed flags are not data
weightValuesWithoutMissed(s, dates) ==
    [i \in DOMAIN dates |->
        LET day == getDayOf(s, dates[i])
            hasData == IsFinite(day.weightMorning) \/ IsFinite(day.weightNight)
        IN IF ~hasData THEN {}
           ELSE IF IsFinite(day.weightMorning) /\ IsFinite(day.weightNight)
                THEN {1} ELSE {0}]

weightValues(s, dates) ==
    [i \in DOMAIN dates |->
        LET day == getDayOf(s, dates[i])
            hasData == \/ IsFinite(day.weightMorning)
                       \/ IsFinite(day.weightNight)
                       \/ day.weightMorningMissed
                       \/ day.weightNightMissed
        IN IF ~hasData THEN {}
           ELSE IF IsFinite(day.weightMorning) /\ IsFinite(day.weightNight)
                THEN {1} ELSE {0}]

\* variant: an answer counts whether or not the day is planned
liftingValuesByAnswer(s, dates) ==
    [i \in DOMAIN dates |->
        LET day == getDayOf(s, dates[i])
        IN IF ~isLiftingDay(s, dates[i]) /\ day.weightLiftingDone = "null" THEN {}
           ELSE IF day.weightLiftingDone = "null" THEN {0}
           ELSE IF day.weightLiftingDone = "yes" THEN {1} ELSE {0}]

liftingValues(s, dates) ==
    [i \in DOMAIN dates |->
        IF ~isLiftingDay(s, dates[i]) THEN {}
        ELSE LET day == getDayOf(s, dates[i])
             IN IF day.weightLiftingDone = "null" THEN {0}
                ELSE IF day.weightLiftingDone = "yes" THEN {1} ELSE {0}]

fastValues(s, dates) ==
    [i \in DOMAIN dates |->
        IF ~isFastDay(s, dates[i]) THEN {}
        ELSE LET day == getDayOf(s, dates[i])
             IN IF day.waterFastDone = "null" THEN {0}
                ELSE IF day.waterFastDone = "yes" THEN {1} ELSE {0}]

-----------------------------------------------------------------------------
(* What the user can enter.                                                *)

\* the dates the date navigator (selectedDate, never after today) is taken to
NavDates(now) == {formatDate(addDays(now, -i)) : i \in 0 .. NavBack}

\* the weeks weekFocus is taken to: this week and the one before
FocusWeeks(now) == {getWeekKey(now), getWeekKey(addDays(now, -7))}

\* the months monthFocus is taken to: this month and the one before
FocusMonths(now) == {getMonthKey(now), getMonthKey(addDays(now, -getDate(now)))}

\* the seven checkboxes of renderWeeklyPlan
WeekDates(weekKey) == {formatDate(addDays(parseDate(weekKey), i)) : i \in 0 .. 6}

\* the text of a weight input
WeightTexts ==
    {[text |-> "empty", n |-> 0], [text |-> "junk", n |-> 0],
     [text |-> "number", n |-> 1502], [text |-> "number", n |-> 1498]}

\* target.value.trim() === '' ? undefined : Number(target.value), then
\* Number.isFinite(next) ? next : undefined
ParseWeight(t) == IF t.text = "number" THEN {t.n} ELSE {}

\* the values a change event of the fast start-date input carries: '' or a
\* date.  The min and max attributes limit the date picker, not the value of
\* a typed date: the first of the month, the 8th, the last start that fits
\* (max) and the day after it.
FastStartValues(monthKey) ==
    LET daysInMonth == getDaysInMonth(monthKey[1], monthKey[2] - 1)
    IN {<<>>} \cup {<<monthKey[1], monthKey[2], d>> :
                       d \in {1, 8, daysInMonth - 2, daysInMonth - 1}}

YesNoFields == {"dietException", "dessertPass", "mealPass"}

WeightFields == {"weightMorning", "weightNight"}

Did(op, key, field, flags) ==
    [op |-> op, key |-> key, field |-> field, flags |-> flags]

-----------------------------------------------------------------------------
(* The handlers of the user interface.                                     *)

Ready == pc = "connected" /\ steps < MaxSteps

Mutate(nextState, note) ==
    /\ setState(nextState)
    /\ last' = note
    /\ steps' = steps + 1
    /\ UNCHANGED <<today, pc, ticks>>

\* renderDietSection: a Yes or No button of one of the five diet rules
DietRuleClick ==
    /\ Ready
    /\ \E date \in NavDates(today), key \in DietKey, next \in {"yes", "no"} :
          LET day == getDayOf(appState, date)
          IN Mutate(setDietValue(appState, date, key, toggleYesNo(day.diet[key], next)),
                    Did("setDietValue", date, key, {}))

\* renderDietSection: a Yes or No button of the exception or of a pass
DietFieldClick ==
    /\ Ready
    /\ \E date \in NavDates(today), key \in YesNoFields, next \in {"yes", "no"} :
          LET day == getDayOf(appState, date)
          IN Mutate(setDayValue(appState, date, key, toggleYesNo(day[key], next)),
                    Did("setDayValue", date, key, {toggleYesNo(day[key], next)}))

\* renderLiftingSection: the buttons exist on a planned lifting day only
LiftingClick ==
    /\ Ready
    /\ \E date \in NavDates(today), next \in {"yes", "no"} :
          LET day == getDayOf(appState, date)
          IN /\ isLiftingDay(appState, date)
             /\ Mutate(setDayValue(appState, date, "weightLiftingDone",
                                   toggleYesNo(day.weightLiftingDone, next)),
                       Did("setDayValue", date, "weightLiftingDone", {}))

\* renderFastSection: the buttons exist on a scheduled fast day only
FastClick ==
    /\ Ready
    /\ \E date \in NavDates(today), next \in {"yes", "no"} :
          LET day == getDayOf(appState, date)
          IN /\ isFastDay(appState, date)
             /\ Mutate(setDayValue(appState, date, "waterFastDone",
                                   toggleYesNo(day.waterFastDone, next)),
                       Did("setDayValue", date, "waterFastDone", {}))

\* renderWeightInput: the input is disabled while the weight is marked missed
WeightInput ==
    /\ Ready
    /\ \E date \in NavDates(today), key \in WeightFields, text \in WeightTexts :
          LET day == getDayOf(appState, date)
          IN /\ ~day[MissedKey(key)]
             /\ Mutate(setWeightValue(appState, date, key, ParseWeight(text)),
                       Did("setWeightValue", date, key, {text.text}))

\* renderWeightInput: the Mark missed button
MissedClick ==
    /\ Ready
    /\ \E date \in NavDates(today), key \in WeightFields :
          Mutate(toggleWeightMissed(appState, date, key),
                 Did("toggleWeightMissed", date, key,
                     IF getDayOf(appState, date)[key] # {} THEN {"hadValue"} ELSE {}))

\* the plan renderWeeklyPlan shows for weekKey
ShownWeekPlan(weekKey) ==
    IF weekKey \in DOMAIN appState.weekPlans
    THEN appState.weekPlans[weekKey] ELSE [dates |-> <<>>]

\* variant: a fourth tick is accepted
WeekCheckNoLimit ==
    /\ Ready
    /\ \E weekKey \in FocusWeeks(today) :
          \E date \in WeekDates(weekKey) :
              LET selected == Range(ShownWeekPlan(weekKey).dates)
              IN /\ date \notin selected
                 /\ Mutate(updateWeekPlan(appState, weekKey,
                                          SortDates(selected \cup {date})),
                           Did("weekCheck", weekKey, "", {}))

\* renderWeeklyPlan: a checkbox of the week is ticked; with three dates
\* selected the tick is undone and nothing else happens
WeekCheck ==
    /\ pc = "connected"
    /\ \E weekKey \in FocusWeeks(today) :
          \E date \in WeekDates(weekKey) :
              LET selected == Range(ShownWeekPlan(weekKey).dates)
              IN /\ date \notin selected
                 /\ IF Cardinality(selected) >= 3
                    THEN /\ last' = Did("weekCheck", weekKey, "", {"rejected"})
                         /\ UNCHANGED <<appState, storage, today, pc, steps, ticks>>
                    ELSE /\ steps < MaxSteps
                         /\ Mutate(updateWeekPlan(appState, weekKey,
                                                  SortDates(selected \cup {date})),
                                   Did("weekCheck", weekKey, "", {}))

\* renderWeeklyPlan: a ticked checkbox of the week is cleared
WeekUncheck ==
    /\ Ready
    /\ \E weekKey \in FocusWeeks(today) :
          \E date \in WeekDates(weekKey) :
              LET selected == Range(ShownWeekPlan(weekKey).dates)
              IN /\ date \in selected
                 /\ Mutate(updateWeekPlan(appState, weekKey,
                                          SortDates(selected \ {date})),
                           Did("weekUncheck", weekKey, "", {}))

\* renderFastPlan: the fast start date is changed
FastStartChange ==
    /\ Ready
    /\ \E monthKey \in FocusMonths(today) :
          \E value \in FastStartValues(monthKey) :
              IF value = <<>>
              THEN Mutate(updateFastPlan(appState, monthKey, <<>>),
                          Did("fastStart", monthKey, "", {"cleared"}))
              ELSE LET start == parseDate(value)
                       dates == [i \in 1 .. 3 |-> formatDate(addDays(start, i - 1))]
                   IN Mutate(updateFastPlan(appState, monthKey, dates),
                             Did("fastStart", monthKey, "", {}))

\* renderBlockingOverlay: the Confirm button of the month overlay, disabled
\* until the plan is complete
ConfirmMonthClick ==
    LET blocking == getBlockingOverlay(appState, today)
    IN /\ Ready
       /\ blocking.type = "month"
       /\ isMonthPlanComplete(appState, blocking.key)
       /\ Mutate(confirmMonthPlan(appState, blocking.key),
                 Did("confirmMonthPlan", blocking.key, "", {}))

\* variant: the Confirm button of the week overlay is never disabled
ConfirmWeekClickAnyPlan ==
    LET blocking == getBlockingOverlay(appState, today)
    IN /\ Ready
       /\ blocking.type = "week"
       /\ Mutate(confirmWeekPlan(appState, blocking.key),
                 Did("confirmWeekPlan", blocking.key, "", {}))

\* renderBlockingOverlay: the Confirm button of the week overlay
ConfirmWeekClick ==
    LET blocking == getBlockingOverlay(appState, today)
    IN /\ Ready
       /\ blocking.type = "week"
       /\ isWeekPlanComplete(appState, blocking.key)
       /\ Mutate(confirmWeekPlan(appState, blocking.key),
                 Did("confirmWeekPlan", blocking.key, "", {}))

\* midnight passes: new Date() is the next day
Tick ==
    /\ pc = "connected"
    /\ ticks < MaxTicks
    /\ today' = addDays(today, 1)
    /\ ticks' = ticks + 1
    /\ last' = Did("tick", <<>>, "", {})
    /\ UNCHANGED <<appState, storage, pc, steps>>

\* variant: the first load is not written to the record store
connectedCallbackNoSave ==
    /\ pc = "constructed"
    /\ pc' = "connected"
    /\ storage' = IF storage.kind = "json" /\ storage.value.trackingStart = {}
                  THEN saveState(appState)
                  ELSE storage
    /\ last' = Did("connectedCallback", <<>>, storage.kind, {})
    /\ UNCHANGED <<appState, today, steps, ticks>>

connectedCallback ==
    /\ pc = "constructed"
    /\ pc' = "connected"
    /\ storage' = IF storage.kind # "json" \/ storage.value.trackingStart = {}
                  THEN saveState(appState)
                  ELSE storage
    /\ last' = Did("connectedCallback", <<>>, storage.kind, {})
    /\ UNCHANGED <<appState, today, steps, ticks>>

-----------------------------------------------------------------------------
(* The snapshots a session leaves in the record store.                     *)
(* Session(first, now) lists the snapshots of one way through the          *)
(* application on the day now, first loaded on the day first: the month's  *)
(* fast is scheduled and confirmed in the month overlay, three lifting     *)
(* days are ticked (not in date order) and confirmed in the week overlay,  *)
(* yesterday is checked in with the diet exception and both weights        *)
(* missed, and today is checked in rule by rule with both weights.         *)

SessionFastStart(now) ==
    LET monthKey == getMonthKey(now)
        before == addDays(now, -1)
    IN IF /\ getMonthKey(before) = monthKey
          /\ getDate(before) <= getDaysInMonth(monthKey[1], monthKey[2] - 1) - 2
       THEN formatDate(before)
       ELSE <<monthKey[1], monthKey[2], 1>>

\* the n-th step of the session, applied to the snapshot s
SessionStep(s, first, now, n) ==
    LET monthKey == getMonthKey(now)
        weekKey == getWeekKey(now)
        t == formatDate(now)
        y == formatDate(addDays(now, -1))
        start == parseDate(SessionFastStart(now))
        w(i) == formatDate(addDays(parseDate(weekKey), i))
    IN CASE n = 1 -> updateFastPlan(s, monthKey,
                         [i \in 1 .. 3 |-> formatDate(addDays(start, i - 1))])
         [] n = 2 -> confirmMonthPlan(s, monthKey)
         [] n = 3 -> updateWeekPlan(s, weekKey, SortDates({w(3)}))
         [] n = 4 -> updateWeekPlan(s, weekKey, SortDates({w(3), w(0)}))
         [] n = 5 -> updateWeekPlan(s, weekKey, SortDates({w(3), w(0), w(1)}))
         [] n = 6 -> confirmWeekPlan(s, weekKey)
         [] n = 7 -> setDayValue(s, y, "dietException", "yes")
         [] n = 8 -> setDayValue(s, y, "dessertPass", "yes")
         [] n = 9 -> toggleWeightMissed(s, y, "weightMorning")
         [] n = 10 -> toggleWeightMissed(s, y, "weightNight")
         [] n = 11 -> IF isLiftingDay(s, y)
                      THEN setDayValue(s, y, "weightLiftingDone", "yes") ELSE s
         [] n = 12 -> IF isFastDay(s, y)
                      THEN setDayValue(s, y, "waterFastDone", "no") ELSE s
         [] n = 13 -> setDayValue(s, t, "dietException", "no")
         [] n \in 14 .. 18 -> setDietValue(s, t, DIET_RULES[n - 13], "no")
         [] n = 19 -> setDayValue(s, t, "dessertPass", "no")
         [] n = 20 -> setDayValue(s, t, "mealPass", "yes")
         [] n = 21 -> setWeightValue(s, t, "weightMorning", {1502})
         [] n = 22 -> setWeightValue(s, t, "weightNight", {1498})

\* the snapshots of the session from its n-th step on, s being the snapshot
\* before that step
RECURSIVE SessionFrom(_, _, _, _)
SessionFrom(s, first, now, n) ==
    IF n > 22 THEN {s}
    ELSE {s} \cup UNION {SessionFrom(next, first, now, n + 1) :
                            next \in {SessionStep(s, first, now, n)}}

Session(first, now) ==
    UNION {SessionFrom(s, first, now, 1) : s \in {defaultState(first)}}

\* the days on which the application is loaded: the first of a month (a
\* Saturday), a Sunday, and a Tuesday
StartDays == {<<2024, 6, 1>>, <<2024, 6, 9>>, <<2024, 6, 11>>}

\* a stored snapshot whose JSON has no trackingStart field
WithoutTrackingStart(raw) ==
    [raw EXCEPT !.value = [@ EXCEPT !.trackingStart = {}]]

\* a stored snapshot whose JSON has no days field
WithoutDays(raw) ==
    [raw EXCEPT !.value = [@ EXCEPT !.days = {}]]

\* the JSON text with a trackingStart field and nothing else
StorageStartOnly(start) ==
    [kind |-> "json", value |-> [NoFields EXCEPT !.trackingStart = {start}]]

\* what localStorage holds when the application is constructed on the day
\* now: nothing (the first load), text that is not JSON, a snapshot of an
\* earlier session, or such a snapshot without its trackingStart field or
\* without some of its maps
StoredValues(now) ==
    {StorageMissing, StorageGarbage, StorageEmptyObject}
    \cup {StorageStartOnly(formatDate(addDays(now, -back))) :
             back \in 0 .. MaxBack}
    \cup UNION {{Stringify(snapshot),
                 WithoutTrackingStart(Stringify(snapshot)),
                 WithoutDays(Stringify(snapshot))} :
        snapshot \in UNION {Session(addDays(now, -back), now) :
                               back \in 0 .. MaxBack}}

\* the class fields after construction: appState = loadState()
Init ==
    \E start \in StartDays :
        \E raw \in StoredValues(parseDate(start)) :
            /\ today = parseDate(start)
            /\ storage = raw
            /\ appState = loadState(raw, parseDate(start))
            /\ pc = "constructed"
            /\ last = Did("loadState", <<>>, "", {})
            /\ steps = 0
            /\ ticks = 0

Next ==
    \/ connectedCallback
    \/ DietRuleClick
    \/ DietFieldClick
    \/ LiftingClick
    \/ FastClick
    \/ WeightInput
    \/ MissedClick
    \/ WeekCheck
    \/ WeekUncheck
    \/ FastStartChange
    \/ ConfirmMonthClick
    \/ ConfirmWeekClick
    \/ Tick

Spec == Init /\ [][Next]_vars

-----------------------------------------------------------------------------
(* The mutation methods called directly, with any argument.                *)

\* the day-level yes/no fields
AnswerFields == YesNoFields \cup {"weightLiftingDone", "waterFastDone"}

\* date lists handed to updateWeekPlan: up to four of the first four days of
\* the week, in date order
ApiWeekDates(weekKey) ==
    {SortDates(S) :
        S \in SUBSET {formatDate(addDays(parseDate(weekKey), i)) : i \in 0 .. 3}}

\* date lists handed to updateFastPlan: none, one date, or a run of three
ApiFastDates(monthKey) ==
    {<<>>}
    \cup {<<v>> : v \in FastStartValues(monthKey) \ {<<>>}}
    \cup {[i \in 1 .. 3 |-> formatDate(addDays(parseDate(v), i - 1))] :
             v \in FastStartValues(monthKey) \ {<<>>}}

\* what an update of a plan found: the key confirmed, the same dates stored
PlanFlags(confirmed, plans, key, dates) ==
    (IF confirmed THEN {"wasConfirmed"} ELSE {})
    \cup (IF key \in DOMAIN plans /\ plans[key].dates = dates
          THEN {"sameDates"} ELSE {})
    \cup (IF Len(dates) < 3 THEN {"partial"} ELSE {})

CallUpdateWeekPlan ==
    /\ Ready
    /\ \E weekKey \in FocusWeeks(today) :
          \E dates \in ApiWeekDates(weekKey) :
              Mutate(updateWeekPlan(appState, weekKey, dates),
                     Did("updateWeekPlan", weekKey, "",
                         PlanFlags(isWeekPlanConfirmed(appState, weekKey),
                                   appState.weekPlans, weekKey, dates)))

CallUpdateFastPlan ==
    /\ Ready
    /\ \E monthKey \in FocusMonths(today) :
          \E dates \in ApiFastDates(monthKey) :
              Mutate(updateFastPlan(appState, monthKey, dates),
                     Did("updateFastPlan", monthKey, "",
                         PlanFlags(isMonthPlanConfirmed(appState, monthKey),
                                   appState.fastPlans, monthKey, dates)))

CallConfirmWeekPlan ==
    /\ Ready
    /\ \E weekKey \in FocusWeeks(today) :
          Mutate(confirmWeekPlan(appState, weekKey),
                 Did("confirmWeekPlan", weekKey, "", {}))

CallConfirmMonthPlan ==
    /\ Ready
    /\ \E monthKey \in FocusMonths(today) :
          Mutate(confirmMonthPlan(appState, monthKey),
                 Did("confirmMonthPlan", monthKey, "", {}))

CallSetDietValue ==
    /\ Ready
    /\ \E date \in NavDates(today), key \in DietKey, value \in YesNo :
          Mutate(setDietValue(appState, date, key, value),
                 Did("setDietValue", date, key, {}))

CallSetDayValue ==
    /\ Ready
    /\ \E date \in NavDates(today), key \in AnswerFields, value \in YesNo :
          Mutate(setDayValue(appState, date, key, value),
                 Did("setDayValue", date, key, {}))

CallSetWeightValue ==
    /\ Ready
    /\ \E date \in NavDates(today), key \in WeightFields, text \in WeightTexts :
          Mutate(setWeightValue(appState, date, key, ParseWeight(text)),
                 Did("setWeightValue", date, key,
                     {text.text} \cup
                     (IF getDayOf(appState, date)[MissedKey(key)]
                      THEN {"wasMissed"} ELSE {})))

CallToggleWeightMissed ==
    /\ Ready
    /\ \E date \in NavDates(today), key \in WeightFields :
          Mutate(toggleWeightMissed(appState, date, key),
                 Did("toggleWeightMissed", date, key,
                     IF getDayOf(appState, date)[key] # {} THEN {"hadValue"} ELSE {}))

NextApi ==
    \/ connectedCallback
    \/ CallUpdateWeekPlan
    \/ CallUpdateFastPlan
    \/ CallConfirmWeekPlan
    \/ CallConfirmMonthPlan
    \/ CallSetDietValue
    \/ CallSetDayValue
    \/ CallSetWeightValue
    \/ CallToggleWeightMissed
    \/ Tick

SpecApi == Init /\ [][NextApi]_vars

-----------------------------------------------------------------------------
(* The weight log: from the first load, the two weight methods are called  *)
(* MaxLog times on the last days, in any order of days.                    *)

\* setState calls of the weight log
MaxLog == 3
\* how many days before today the weight log is filled in
LogBack == 2

LogDates(now) == {formatDate(addDays(now, -i)) : i \in 0 .. LogBack}

\* the values of the weight input: none, zero, and two weights
LogWeights == {{}, {0}, {1499}, {1502}}

InitLog ==
    \E start \in StartDays :
        /\ today = parseDate(start)
        /\ storage = StorageMissing
        /\ appState = loadState(StorageMissing, parseDate(start))
        /\ pc = "constructed"
        /\ last = Did("loadState", <<>>, "", {})
        /\ steps = 0
        /\ ticks = 0

LogWeight ==
    /\ pc = "connected"
    /\ steps < MaxLog
    /\ \E date \in LogDates(today), key \in WeightFields, value \in LogWeights :
          Mutate(setWeightValue(appState, date, key, value),
                 Did("setWeightValue", date, key, {}))

LogMissed ==
    /\ pc = "connected"
    /\ steps < MaxLog
    /\ \E date \in LogDates(today), key \in WeightFields :
          Mutate(toggleWeightMissed(appState, date, key),
                 Did("toggleWeightMissed", date, key, {}))

NextLog ==
    \/ connectedCallback
    \/ LogWeight
    \/ LogMissed

SpecLog == InitLog /\ [][NextLog]_vars

-----------------------------------------------------------------------------
(* The claims.                                                             *)

TodayIso == formatDate(today)

ThisMonth == <<TodayIso[1], TodayIso[2]>>

\* the Sunday on or before a Date, as an ISO date
SundayOf(date) == formatDate(date - (date % 7))

ThisWeek == SundayOf(today)

Yesterday == formatDate(today - 1)

\* a plan with exactly three dates stored under the key, and the key's flag set
PlanDone(plans, flags, key) ==
    /\ key \in DOMAIN plans
    /\ Len(plans[key].dates) = 3
    /\ key \in DOMAIN flags
    /\ flags[key]

MonthDone == PlanDone(appState.fastPlans, appState.confirmedMonths, ThisMonth)

WeekDone == PlanDone(appState.weekPlans, appState.confirmedWeeks, ThisWeek)

Gate == getBlockingOverlay(appState, today)

\* the dates the queries are asked about
CheckDates == {formatDate(today + i) : i \in -2 .. 1}

\* the day records the queries are asked about
CheckDays ==
    {appState.days[d] : d \in DOMAIN appState.days}
    \cup {createEmptyDay(d) : d \in CheckDates}

\* C1: the gate follows the priority month, week, yesterday: it is
\* MONTH_PLAN_REQUIRED(this month) whenever this month's plan is not complete
\* and confirmed; WEEK_PLAN_REQUIRED(this week) exactly when the month plan is
\* and the week plan is not; PREVIOUS_DAY_REQUIRED(yesterday) only when both
\* are; otherwise NONE.
C1_GatePriority ==
    /\ Gate.type \in {"none", "month", "week", "yesterday"}
    /\ ~MonthDone => Gate = [type |-> "month", key |-> ThisMonth]
    /\ Gate.type = "month" => ~MonthDone
    /\ Gate.type = "week" <=> (MonthDone /\ ~WeekDone)
    /\ Gate.type = "week" => Gate.key = ThisWeek
    /\ Gate.type = "yesterday" => (MonthDone /\ WeekDone /\ Gate.key = Yesterday)
    /\ Gate.type = "none" => (MonthDone /\ WeekDone /\ Gate.key = <<>>)

\* C1 witness: neither plan is done, yesterday is tracked and not complete,
\* a complete week plan is stored, and the gate asks for the month
C1_Witness ==
    /\ ~MonthDone
    /\ ~WeekDone
    /\ ThisWeek \in DOMAIN appState.weekPlans
    /\ ~IsoLess(Yesterday, appState.trackingStart)
    /\ ~isDayComplete(appState, getDayOf(appState, Yesterday), Yesterday)
    /\ Gate.type = "month"

\* C2: with both plans done the gate is NONE when yesterday is before
\* trackingStart; from trackingStart on it is PREVIOUS_DAY_REQUIRED(yesterday)
\* exactly when yesterday's record is not complete; with trackingStart =
\* today the previous-day gate is never raised.
C2_TrackingStart ==
    /\ (MonthDone /\ WeekDone) =>
          IF IsoLess(Yesterday, appState.trackingStart)
          THEN Gate.type = "none"
          ELSE /\ Gate.type \in {"none", "yesterday"}
               /\ Gate.type = "yesterday" <=>
                    ~isDayComplete(appState, getDayOf(appState, Yesterday), Yesterday)
               /\ Gate.type = "yesterday" => Gate.key = Yesterday
    /\ appState.trackingStart = TodayIso => Gate.type # "yesterday"

\* C2 witness: both plans done, yesterday is the day tracking started, and
\* the gate asks for it
C2_Witness ==
    /\ MonthDone
    /\ WeekDone
    /\ Yesterday = appState.trackingStart
    /\ Gate = [type |-> "yesterday", key |-> Yesterday]

\* C3: after updateWeekPlan(weekKey, dates) the flag of weekKey is false, and
\* after updateFastPlan(monthKey, dates) the flag of monthKey is false,
\* whatever was stored and confirmed before.
C3_UpdateClearsConfirmation ==
    /\ last.op = "updateWeekPlan" =>
          /\ last.key \in DOMAIN appState.confirmedWeeks
          /\ ~appState.confirmedWeeks[last.key]
          /\ ~isWeekPlanConfirmed(appState, last.key)
    /\ last.op = "updateFastPlan" =>
          /\ last.key \in DOMAIN appState.confirmedMonths
          /\ ~appState.confirmedMonths[last.key]
          /\ ~isMonthPlanConfirmed(appState, last.key)

\* C3 witness: updateWeekPlan ran on a confirmed week with the dates that
\* were stored already
C3_Witness ==
    /\ last.op = "updateWeekPlan"
    /\ {"wasConfirmed", "sameDates"} \subseteq last.flags
    /\ Len(appState.weekPlans[last.key].dates) = 3

\* C4: no day record has a weight together with its missed flag.
C4_WeightXorMissed ==
    \A d \in DOMAIN appState.days :
        /\ ~(appState.days[d].weightMorning # {} /\ appState.days[d].weightMorningMissed)
        /\ ~(appState.days[d].weightNight # {} /\ appState.days[d].weightNightMissed)

\* C4 witness: a weight that had a value was marked missed
C4_Witness ==
    /\ last.op = "toggleWeightMissed"
    /\ "hadValue" \in last.flags
    /\ appState.days[last.key][MissedKey(last.field)]

\* the plan dates stored for the week, or the month, of an ISO date
PlannedLifting(date) ==
    LET weekKey == SundayOf(parseDate(date))
    IN IF weekKey \in DOMAIN appState.weekPlans
       THEN Range(appState.weekPlans[weekKey].dates) ELSE {}

PlannedFast(date) ==
    LET monthKey == <<date[1], date[2]>>
    IN IF monthKey \in DOMAIN appState.fastPlans
       THEN Range(appState.fastPlans[monthKey].dates) ELSE {}

DayCompleteAsSpecified(day, date) ==
    /\ day.dietException # "null"
    /\ \/ day.dietException = "yes"
       \/ /\ \A k \in DietKey : day.diet[k] # "null"
          /\ day.dessertPass # "null"
          /\ day.mealPass # "null"
    /\ day.weightMorning # {} \/ day.weightMorningMissed
    /\ day.weightNight # {} \/ day.weightNightMissed
    /\ date \notin PlannedLifting(date) \/ day.weightLiftingDone # "null"
    /\ date \notin PlannedFast(date) \/ day.waterFastDone # "null"

\* C5: isDayComplete(day, date) holds exactly when the diet section is
\* answered (the exception alone when it is yes), both weights are given or
\* missed, and lifting and the fast are answered where date is planned.
C5_DayComplete ==
    \A day \in CheckDays, date \in CheckDates :
        isDayComplete(appState, day, date) <=> DayCompleteAsSpecified(day, date)

\* C5 witness: a recorded day with the exception, an unanswered diet rule
\* and an unanswered pass is complete for its own date, a planned lifting day
C5_Witness ==
    \E d \in DOMAIN appState.days :
        /\ appState.days[d].dietException = "yes"
        /\ appState.days[d].diet["refinedCarbs"] = "null"
        /\ appState.days[d].mealPass = "null"
        /\ d \in PlannedLifting(d)
        /\ isDayComplete(appState, appState.days[d], d)

\* C6: dietRequirementSatisfied(day) holds exactly when the exception or a
\* pass is yes or all five diet rules are answered no.
C6_DietRequirement ==
    \A day \in CheckDays :
        dietRequirementSatisfied(day) <=>
            \/ day.dietException = "yes"
            \/ day.dessertPass = "yes"
            \/ day.mealPass = "yes"
            \/ \A k \in DietKey : day.diet[k] = "no"

\* C6 witness: a day with five rules answered no, the exception and a pass
\* answered no, is satisfied
C6_Witness ==
    \E d \in DOMAIN appState.days :
        /\ \A k \in DietKey : appState.days[d].diet[k] = "no"
        /\ appState.days[d].dietException = "no"
        /\ appState.days[d].dessertPass = "no"
        /\ appState.days[d].mealPass # "yes"
        /\ dietRequirementSatisfied(appState.days[d])

\* the recorded dates other than date, in date's week, that hold the pass
OtherPassDays(date, kind) ==
    {d \in DOMAIN appState.days :
        /\ d # date
        /\ SundayOf(parseDate(d)) = SundayOf(parseDate(date))
        /\ appState.days[d][kind] = "yes"}

\* C7: getPassConflict(date, kind) returns a date exactly when another
\* recorded date of date's week holds the pass, and returns such a date; with
\* one such date it returns that date.
C7_PassConflict ==
    \A date \in CheckDates, kind \in {"dessertPass", "mealPass"} :
        LET result == getPassConflict(appState, date, kind)
        IN /\ result # {} <=> OtherPassDays(date, kind) # {}
           /\ result \subseteq OtherPassDays(date, kind)
           /\ Cardinality(result) <= 1
           /\ Cardinality(OtherPassDays(date, kind)) = 1 =>
                 result = OtherPassDays(date, kind)

\* C7 witness: one day D holds the dessert pass; a query from another day of
\* its week returns D, a query from D returns none, and a query from a day
\* of the week before returns none
C7_Witness ==
    \E D \in DOMAIN appState.days, other \in CheckDates, far \in CheckDates :
        /\ appState.days[D].dessertPass = "yes"
        /\ other # D
        /\ getPassConflict(appState, other, "dessertPass") = {D}
        /\ getPassConflict(appState, D, "dessertPass") = {}
        /\ SundayOf(parseDate(far)) # SundayOf(parseDate(D))
        /\ getPassConflict(appState, far, "dessertPass") = {}

\* every week plan holds at most three dates, in ascending order without
\* repeats, each within the seven days from its key
WeekPlansWellFormed ==
    \A k \in DOMAIN appState.weekPlans :
        LET dates == appState.weekPlans[k].dates
        IN /\ Len(dates) <= 3
           /\ \A i, j \in DOMAIN dates : i < j => IsoLess(dates[i], dates[j])
           /\ \A i \in DOMAIN dates :
                 parseDate(dates[i]) - parseDate(k) \in 0 .. 6

\* C8: ticking a lifting day of a week that holds three dates changes
\* neither the AppState nor the record store, and every week plan holds
\* at most three dates, ascending, within the seven days from its key.
C8_FourthDayRejected ==
    /\ []WeekPlansWellFormed
    /\ [][("rejected" \in last'.flags) =>
            (appState' = appState /\ storage' = storage)]_vars

\* C8 witness: a tick was rejected on a confirmed three-date plan
C8_Witness ==
    /\ last.op = "weekCheck"
    /\ "rejected" \in last.flags
    /\ Len(appState.weekPlans[last.key].dates) = 3
    /\ isWeekPlanConfirmed(appState, last.key)

\* C9 as claimed: every fast plan holds no date, or a start date and the
\* next two calendar days, all within the month of its key.
C9_FastPlanInMonth ==
    \A k \in DOMAIN appState.fastPlans :
        LET dates == appState.fastPlans[k].dates
        IN \/ Len(dates) = 0
           \/ /\ Len(dates) = 3
              /\ parseDate(dates[2]) = parseDate(dates[1]) + 1
              /\ parseDate(dates[3]) = parseDate(dates[1]) + 2
              /\ \A i \in 1 .. 3 : <<dates[i][1], dates[i][2]>> = k

\* C10: isWeekPlanComplete(key) and isMonthPlanComplete(key) hold exactly
\* when a plan is stored under the key with three dates; an update with
\* fewer than three dates leaves the plan stored, and incomplete.
C10_PlanComplete ==
    /\ \A k \in FocusWeeks(today) \cup DOMAIN appState.weekPlans :
          isWeekPlanComplete(appState, k) <=>
              (k \in DOMAIN appState.weekPlans
               /\ Len(appState.weekPlans[k].dates) = 3)
    /\ \A k \in FocusMonths(today) \cup DOMAIN appState.fastPlans :
          isMonthPlanComplete(appState, k) <=>
              (k \in DOMAIN appState.fastPlans
               /\ Len(appState.fastPlans[k].dates) = 3)
    /\ (last.op = "updateWeekPlan" /\ "partial" \in last.flags) =>
          /\ last.key \in DOMAIN appState.weekPlans
          /\ Len(appState.weekPlans[last.key].dates) < 3
          /\ ~isWeekPlanComplete(appState, last.key)
    /\ (last.op = "updateFastPlan" /\ "partial" \in last.flags) =>
          /\ last.key \in DOMAIN appState.fastPlans
          /\ Len(appState.fastPlans[last.key].dates) < 3
          /\ ~isMonthPlanComplete(appState, last.key)

\* C10 witness: a two-date week plan is stored and incomplete beside a
\* complete month plan, and a focused week has no plan
C10_Witness ==
    /\ last.op = "updateWeekPlan"
    /\ Len(appState.weekPlans[last.key].dates) = 2
    /\ ~isWeekPlanComplete(appState, last.key)
    /\ isMonthPlanComplete(appState, ThisMonth)
    /\ \E k \in FocusWeeks(today) : k \notin DOMAIN appState.weekPlans

\* the persisted value is missing, is not JSON, or has no trackingStart
NoUsableRecord(raw) ==
    raw.kind \in {"missing", "garbage"} \/ raw.value.trackingStart = {}

\* C11 as claimed: loadState returns the default state (all maps empty, no
\* confirmations, trackingStart = the current date) when the persisted value
\* is missing, is unparseable, or parses but has no trackingStart field.
C11_LoadStateDefaults ==
    (pc = "constructed" /\ NoUsableRecord(storage)) =>
        appState = defaultState(today)

\* C12: on the first load (nothing stored) the in-memory state is the
\* default state of the current date, connectedCallback writes exactly that
\* state to the record store, and it stays there until the first mutation.
C12_FirstLoadPersisted ==
    /\ [](pc = "constructed" /\ storage = StorageMissing =>
             appState = defaultState(today))
    /\ [][(pc = "constructed" /\ storage = StorageMissing) =>
             /\ appState' = appState
             /\ storage' = Stringify(defaultState(today))]_vars
    /\ [][(pc = "connected" /\ steps' = 0) =>
             (storage' = storage /\ appState' = appState)]_vars

\* C12 witness: connectedCallback has run on nothing stored, and the record
\* store holds the default state that is in memory
C12_Witness ==
    /\ last.op = "connectedCallback"
    /\ last.field = "missing"
    /\ steps = 0
    /\ appState = defaultState(today)
    /\ appState.days = EmptyMap
    /\ storage = Stringify(appState)

\* C13 as claimed: after setWeightValue(date, key, value) the missed flag of
\* key is false, whether value is a number or undefined; and after
\* toggleWeightMissed turned the flag on, the weight of key is absent.
C13_SetWeightClearsMissed ==
    /\ last.op = "setWeightValue" =>
          ~appState.days[last.key][MissedKey(last.field)]
    /\ (last.op = "toggleWeightMissed"
        /\ appState.days[last.key][MissedKey(last.field)]) =>
          appState.days[last.key][last.field] = {}

\* the week keys and month keys that a step can touch
FlagWeeks == FocusWeeks(today) \cup DOMAIN appState.confirmedWeeks

FlagMonths == FocusMonths(today) \cup DOMAIN appState.confirmedMonths

\* C14: in every step, a week's or month's confirmation flag goes from not
\* confirmed to confirmed only in confirmWeekPlan / confirmMonthPlan of that
\* key, and from confirmed to not confirmed only in updateWeekPlan /
\* updateFastPlan of that key; every other step leaves it as it was.
C14_ConfirmationFrame ==
    [][/\ \A k \in FlagWeeks :
            /\ (~isWeekPlanConfirmed(appState, k)
                /\ isWeekPlanConfirmed(appState', k)) =>
                  (last'.op = "confirmWeekPlan" /\ last'.key = k)
            /\ (isWeekPlanConfirmed(appState, k)
                /\ ~isWeekPlanConfirmed(appState', k)) =>
                  (last'.op = "updateWeekPlan" /\ last'.key = k)
       /\ \A k \in FlagMonths :
            /\ (~isMonthPlanConfirmed(appState, k)
                /\ isMonthPlanConfirmed(appState', k)) =>
                  (last'.op = "confirmMonthPlan" /\ last'.key = k)
            /\ (isMonthPlanConfirmed(appState, k)
                /\ ~isMonthPlanConfirmed(appState', k)) =>
                  (last'.op = "updateFastPlan" /\ last'.key = k)]_vars

\* C14 witness: updateFastPlan ran on a confirmed month, whose flag is now
\* off, while the confirmed week is still confirmed
C14_Witness ==
    /\ last.op = "updateFastPlan"
    /\ "wasConfirmed" \in last.flags
    /\ ~isMonthPlanConfirmed(appState, last.key)
    /\ isWeekPlanConfirmed(appState, ThisWeek)

\* every key whose flag is set has a plan of exactly three dates
ConfirmedPlansComplete ==
    /\ \A k \in DOMAIN appState.confirmedWeeks :
          appState.confirmedWeeks[k] =>
              (k \in DOMAIN appState.weekPlans
               /\ Len(appState.weekPlans[k].dates) = 3)
    /\ \A k \in DOMAIN appState.confirmedMonths :
          appState.confirmedMonths[k] =>
              (k \in DOMAIN appState.fastPlans
               /\ Len(appState.fastPlans[k].dates) = 3)

\* C15: through the handlers of the page a plan is confirmed only while it
\* holds exactly three dates, and every confirmed week or month key has a
\* plan of exactly three dates.
C15_ConfirmedOnlyComplete ==
    /\ []ConfirmedPlansComplete
    /\ [][/\ last'.op = "confirmWeekPlan" =>
               (last'.key \in DOMAIN appState.weekPlans
                /\ Len(appState.weekPlans[last'.key].dates) = 3)
          /\ last'.op = "confirmMonthPlan" =>
               (last'.key \in DOMAIN appState.fastPlans
                /\ Len(appState.fastPlans[last'.key].dates) = 3)]_vars

\* C15 witness: the week overlay's Confirm button was clicked, and the
\* confirmed week holds three dates
C15_Witness ==
    /\ last.op = "confirmWeekPlan"
    /\ isWeekPlanConfirmed(appState, last.key)
    /\ Len(appState.weekPlans[last.key].dates) = 3

\* the recorded day records, and a day without record
LoggedDays ==
    {appState.days[d] : d \in DOMAIN appState.days}
    \cup {createEmptyDay(formatDate(today))}

\* C16: getDailyAverage is the mean of the two weights when both are there,
\* the one weight when one is there, none (not zero) when neither is; the
\* missed flags make no difference.
C16_DailyAverage ==
    \A day \in LoggedDays :
        LET morning == day.weightMorning
            night == day.weightNight
            average == getDailyAverage(day)
        IN /\ (morning # {} /\ night # {}) =>
                 \E m \in morning, n \in night, a \in average :
                     /\ average = {a}
                     /\ a[1] * 2 = (m + n) * a[2]
           /\ (morning # {} /\ night = {}) =>
                 \E m \in morning : average = {<<m, 1>>}
           /\ (morning = {} /\ night # {}) =>
                 \E n \in night : average = {<<n, 1>>}
           /\ (morning = {} /\ night = {}) => average = {}
           /\ \A a \in BOOLEAN, b \in BOOLEAN :
                 getDailyAverage([day EXCEPT !.weightMorningMissed = a,
                                             !.weightNightMissed = b]) = average

\* C16 witness: among the recorded days one has two different weights and
\* an average that is not a whole number, and one has the night weight alone
C16_Witness ==
    /\ \E day \in LoggedDays :
          /\ day.weightMorning # {} /\ day.weightNight # {}
          /\ day.weightMorning # day.weightNight
          /\ \E a \in getDailyAverage(day) : a[2] = 2
    /\ \E day \in LoggedDays :
          /\ day.weightMorning = {} /\ day.weightNight # {}
          /\ getDailyAverage(day) = {<<Coalesce(day.weightNight, 0), 1>>}

\* the dates asked about, and the window sizes
AskedDates == {formatDate(addDays(today, i)) : i \in -LogBack .. 1}

Windows == {1, 2, 3, 7}

\* the dates of the window of size w ending at date that have a weight
WindowData(date, w) ==
    {d \in {formatDate(parseDate(date) - i) : i \in 0 .. w - 1} :
        /\ d \in DOMAIN appState.days
        /\ (appState.days[d].weightMorning # {}
            \/ appState.days[d].weightNight # {})}

\* twice the daily average of a recorded day that has a weight
TwiceAverage(d) ==
    LET day == appState.days[d]
    IN IF day.weightMorning # {} /\ day.weightNight # {}
       THEN Coalesce(day.weightMorning, 0) + Coalesce(day.weightNight, 0)
       ELSE 2 * Coalesce(day.weightMorning \cup day.weightNight, 0)

RECURSIVE TwiceTotal(_)
TwiceTotal(dates) ==
    IF dates = {} THEN 0
    ELSE LET d == CHOOSE x \in dates : TRUE
         IN TwiceAverage(d) + TwiceTotal(dates \ {d})

\* C17: getRollingAverage(date, windowSize) is the sum of the daily averages
\* of the windowSize days ending at date that have one, divided by the number
\* of those days; none when there is no such day.
C17_RollingAverage ==
    \A date \in AskedDates, w \in Windows :
        LET data == WindowData(date, w)
            result == getRollingAverage(appState, date, w)
        IN /\ data = {} <=> result = {}
           /\ \A r \in result :
                 /\ result = {r}
                 /\ r[1] * 2 * Cardinality(data) = TwiceTotal(data) * r[2]

\* C17 witness: a window of three days ending today holds two days with
\* different averages around a day without weights
C17_Witness ==
    LET t0 == formatDate(today)
        t1 == formatDate(addDays(today, -1))
        t2 == formatDate(addDays(today, -2))
    IN /\ WindowData(t0, 3) = {t0, t2}
       /\ t1 \in DOMAIN appState.days
       /\ TwiceAverage(t0) # TwiceAverage(t2)
       /\ getRollingAverage(appState, t0, 3) # {}
       /\ getRollingAverage(appState, t0, 1) # getRollingAverage(appState, t0, 3)

\* the recorded dates whose daily average is a number
DatesWithAverage ==
    {d \in DOMAIN appState.days : getDailyAverage(appState.days[d]) # {}}

\* C18: getWeightSeries has one entry (date, daily average) for each
\* recorded day with a daily average, none for any other day, in strictly
\* ascending date order.
C18_WeightSeries ==
    LET series == getWeightSeries(appState)
    IN /\ {series[i].date : i \in DOMAIN series} = DatesWithAverage
       /\ Len(series) = Cardinality(DatesWithAverage)
       /\ \A i \in DOMAIN series :
             {series[i].value} = getDailyAverage(appState.days[series[i].date])
       /\ \A i, j \in DOMAIN series :
             i < j => IsoLess(series[i].date, series[j].date)

\* C18 witness: three days were recorded latest first, and two of them have
\* an average
C18_Witness ==
    /\ Len(appState.dayKeys) = 3
    /\ IsoLess(appState.dayKeys[2], appState.dayKeys[1])
    /\ IsoLess(appState.dayKeys[3], appState.dayKeys[2])
    /\ Cardinality(DatesWithAverage) = 2
    /\ Len(getWeightSeries(appState)) = 2

\* the i-th charted date, counted from the oldest
Charted(i) == formatDate(today - (CHART_DAYS - i))

\* the value of a goal that applies when planned holds and is met when the
\* answer is yes
PlannedValue(planned, answer) ==
    IF ~planned THEN {} ELSE IF answer = "yes" THEN {1} ELSE {0}

\* C19: for every charted date the lifting value is none exactly when the
\* date is not in the week plan of its week, 1 exactly when it is planned
\* and weightLiftingDone is yes, 0 when planned and answered no or not at
\* all; the fast value likewise from the fast plan of its month and
\* waterFastDone.
C19_PlannedGoalValues ==
    LET lifting == liftingValues(appState, ChartDates(today))
        fast == fastValues(appState, ChartDates(today))
    IN /\ DOMAIN lifting = 1 .. CHART_DAYS
       /\ DOMAIN fast = 1 .. CHART_DAYS
       /\ \A i \in 1 .. CHART_DAYS :
             LET d == Charted(i)
                 day == getDayOf(appState, d)
             IN /\ lifting[i] = PlannedValue(d \in PlannedLifting(d),
                                              day.weightLiftingDone)
                /\ fast[i] = PlannedValue(d \in PlannedFast(d),
                                           day.waterFastDone)

\* C19 witness: the chart holds a planned lifting day answered yes (1), a
\* planned lifting day without answer (0), and a day answered yes that is
\* not planned (none)
C19_Witness ==
    LET lifting == liftingValues(appState, ChartDates(today))
    IN /\ \E i \in 1 .. CHART_DAYS :
             /\ lifting[i] = {1}
             /\ Charted(i) \in PlannedLifting(Charted(i))
       /\ \E i \in 1 .. CHART_DAYS :
             /\ lifting[i] = {0}
             /\ getDayOf(appState, Charted(i)).weightLiftingDone = "null"
       /\ \E i \in 1 .. CHART_DAYS :
             /\ lifting[i] = {}
             /\ getDayOf(appState, Charted(i)).weightLiftingDone = "yes"

\* a diet field of the day is answered
DietAnswered(day) ==
    \/ day.dietException # "null"
    \/ day.dessertPass # "null"
    \/ day.mealPass # "null"
    \/ \E k \in DietKey : day.diet[k] # "null"

\* C20: for every charted date the weights value is 1 exactly when both
\* weights are there, none exactly when the day has neither a weight nor a
\* missed flag, 0 otherwise; the diet value is none exactly when no diet
\* field is answered, otherwise 1 exactly when dietRequirementSatisfied.
C20_LoggedGoalValues ==
    LET weights == weightValues(appState, ChartDates(today))
        diet == dietValues(appState, ChartDates(today))
    IN /\ DOMAIN weights = 1 .. CHART_DAYS
       /\ DOMAIN diet = 1 .. CHART_DAYS
       /\ \A i \in 1 .. CHART_DAYS :
             LET day == getDayOf(appState, Charted(i))
                 both == day.weightMorning # {} /\ day.weightNight # {}
                 nothing == /\ day.weightMorning = {} /\ day.weightNight = {}
                            /\ ~day.weightMorningMissed
                            /\ ~day.weightNightMissed
             IN /\ weights[i] \in {{}, {0}, {1}}
                /\ weights[i] = {1} <=> both
                /\ weights[i] = {} <=> nothing
                /\ diet[i] \in {{}, {0}, {1}}
                /\ diet[i] = {} <=> ~DietAnswered(day)
                /\ DietAnswered(day) =>
                      (diet[i] = {1} <=> dietRequirementSatisfied(day))

\* C20 witness: the chart holds a day with both weights (1), a day with a
\* missed flag and no weight (0), a day with a diet answer that does not
\* satisfy the requirement (0) and a day that satisfies it (1)
C20_Witness ==
    LET weights == weightValues(appState, ChartDates(today))
        diet == dietValues(appState, ChartDates(today))
    IN /\ \E i \in 1 .. CHART_DAYS : weights[i] = {1}
       /\ \E i \in 1 .. CHART_DAYS :
             /\ weights[i] = {0}
             /\ getDayOf(appState, Charted(i)).weightMorning = {}
             /\ getDayOf(appState, Charted(i)).weightNight = {}
       /\ \E i \in 1 .. CHART_DAYS : weights[i] = {}
       /\ \E i \in 1 .. CHART_DAYS : diet[i] = {0}
       /\ \E i \in 1 .. CHART_DAYS : diet[i] = {1}

PassKinds == {"dessertPass", "mealPass"}

\* the recorded dates of the week of date that hold the pass
PassDays(date, kind) ==
    {d \in DOMAIN appState.days :
        /\ SundayOf(parseDate(d)) = SundayOf(parseDate(date))
        /\ appState.days[d][kind] = "yes"}

\* C21 as claimed: for each week and each pass kind, at most one recorded
\* day of the week holds the pass.
C21_PassOncePerWeek ==
    \A d \in DOMAIN appState.days, kind \in PassKinds :
        Cardinality(PassDays(d, kind)) <= 1

\* C21, amended: a second use of a pass in a week is recorded and reported:
\* the page names another day of the week under the pass buttons of a
\* recorded day exactly when that day holds the pass and another recorded
\* day of its week holds it too, and the answer a pass button sets is the
\* answer stored, whatever the other days of the week hold.
C21_PassConflictReported ==
    /\ \A d \in DOMAIN appState.days, kind \in PassKinds :
          LET warning == PassWarning(appState, appState.days[d], d, kind)
          IN /\ warning # {} <=>
                   (d \in PassDays(d, kind) /\ PassDays(d, kind) # {d})
             /\ warning \subseteq PassDays(d, kind) \ {d}
    /\ (last.op = "setDayValue" /\ last.field \in PassKinds
        /\ "yes" \in last.flags) =>
          appState.days[last.key][last.field] = "yes"

\* C21 witness: a pass button set yes on a day whose week already held the
\* pass on another day; both days hold it and the page reports the other
C21_Witness ==
    /\ last.op = "setDayValue"
    /\ last.field = "dessertPass"
    /\ "yes" \in last.flags
    /\ Cardinality(PassDays(last.key, "dessertPass")) = 2
    /\ PassWarning(appState, appState.days[last.key], last.key, "dessertPass")
          = PassDays(last.key, "dessertPass") \ {last.key}

DayOps == {"setDietValue", "setDayValue", "setWeightValue", "toggleWeightMissed"}

\* the record r of a date that op has just created differs from the
\* all-unanswered default in nothing but what op writes
FromDefault(r, date, op, field) ==
    LET default == createEmptyDay(date)
    IN IF op = "setDietValue"
       THEN [r EXCEPT !.diet = [@ EXCEPT ![field] = "null"]] = default
       ELSE IF op = "setDayValue"
       THEN [r EXCEPT ![field] = "null"] = default
       ELSE [r EXCEPT ![field] = {}, ![MissedKey(field)] = FALSE] = default

\* C23: no step removes a recorded date; a date enters the days map only in
\* a day mutation of that date, its record being the all-unanswered default
\* with that mutation applied; and reading a date without record gives the
\* all-unanswered default.
C23_DaysNeverShrink ==
    /\ [](\A d \in CheckDates \ DOMAIN appState.days :
             getDayOf(appState, d) = createEmptyDay(d))
    /\ [][/\ DOMAIN appState.days \subseteq DOMAIN appState'.days
          /\ SubSeq(appState'.dayKeys, 1, Len(appState.dayKeys))
                = appState.dayKeys
          /\ \A d \in DOMAIN appState'.days \ DOMAIN appState.days :
                /\ last'.op \in DayOps
                /\ last'.key = d
                /\ FromDefault(appState'.days[d], d, last'.op, last'.field)]_vars

\* C23 witness: a day mutation has just added a date to recorded days, the
\* earlier ones are still there
C23_Witness ==
    /\ last.op \in DayOps
    /\ steps = 1
    /\ Len(appState.dayKeys) >= 2
    /\ appState.dayKeys[Len(appState.dayKeys)] = last.key
    /\ FromDefault(appState.days[last.key], last.key, last.op, last.field)
    /\ appState.days[last.key] # createEmptyDay(last.key)

\* the gate after the step
GateNext == getBlockingOverlay(appState', today')

\* the step is a confirmation of the plan of three dates stored under key
ConfirmsWeek(key) ==
    /\ last'.op = "confirmWeekPlan"
    /\ last'.key = key
    /\ key \in DOMAIN appState.weekPlans
    /\ Len(appState.weekPlans[key].dates) = 3

ConfirmsMonth(key) ==
    /\ last'.op = "confirmMonthPlan"
    /\ last'.key = key
    /\ key \in DOMAIN appState.fastPlans
    /\ Len(appState.fastPlans[key].dates) = 3

\* with the gate at NONE or PREVIOUS_DAY_REQUIRED, replacing the plan of the
\* current week, or month, makes the gate ask for that plan
ReplaceRaisesGate ==
    /\ (/\ Gate.type \in {"none", "yesterday"}
        /\ last'.op = "updateWeekPlan"
        /\ last'.key = ThisWeek) =>
          GateNext = [type |-> "week", key |-> ThisWeek]
    /\ (/\ Gate.type \in {"none", "yesterday"}
        /\ last'.op = "updateFastPlan"
        /\ last'.key = ThisMonth) =>
          GateNext = [type |-> "month", key |-> ThisMonth]

\* the gate asks for the month plan until that plan is confirmed again
MonthGateStays ==
    (Gate.type = "month" /\ ~ConfirmsMonth(ThisMonth)) =>
        GateNext = [type |-> "month", key |-> ThisMonth]

\* C24 as claimed: for a fixed today, replacing the current week's plan at
\* NONE or PREVIOUS_DAY_REQUIRED gives WEEK_PLAN_REQUIRED(this week), and
\* the gate stays there in every step that is not confirmWeekPlan of a
\* three-date plan; likewise with the month plan.
C24_GateUntilConfirmed ==
    [][today' = today =>
          /\ ReplaceRaisesGate
          /\ MonthGateStays
          /\ (Gate.type = "week" /\ ~ConfirmsWeek(ThisWeek)) =>
                GateNext = [type |-> "week", key |-> ThisWeek]]_vars

\* C24, amended: as claimed, except that while the gate asks for the week
\* plan a replacement of the current month's plan moves it to
\* MONTH_PLAN_REQUIRED(this month); in no step other than confirmWeekPlan of
\* a three-date plan does the gate get past the week plan.
C24_GateUntilConfirmedOrMonth ==
    [][today' = today =>
          /\ ReplaceRaisesGate
          /\ MonthGateStays
          /\ (Gate.type = "week" /\ ~ConfirmsWeek(ThisWeek)) =>
                /\ GateNext.type \in {"week", "month"}
                /\ ~isWeekPlanConfirmed(appState', ThisWeek)
                   \/ ~isWeekPlanComplete(appState', ThisWeek)
                /\ GateNext.type = "month" <=>
                      (last'.op = "updateFastPlan" /\ last'.key = ThisMonth)]_vars

\* C24 witness: the confirmed plan of the current week was replaced by the
\* same three dates, the month plan is done, and the gate asks for the week
C24_Witness ==
    /\ last.op = "updateWeekPlan"
    /\ last.key = ThisWeek
    /\ {"wasConfirmed", "sameDates"} \subseteq last.flags
    /\ Len(appState.weekPlans[ThisWeek].dates) = 3
    /\ MonthDone
    /\ Gate = [type |-> "week", key |-> ThisWeek]

\* the maps f and g hold the same keys and values, key aside
SameExcept(f, g, key) ==
    /\ DOMAIN f \ {key} = DOMAIN g \ {key}
    /\ \A k \in DOMAIN f \ {key} : f[k] = g[k]

PlanOps == {"updateWeekPlan", "confirmWeekPlan", "updateFastPlan", "confirmMonthPlan"}

\* C25: a day mutation for date d changes at most the record of d; a week
\* operation for key k changes at most the plan and flag of k, and
\* confirmWeekPlan leaves the plan of k as it is; the same for the month
\* operations; no step changes trackingStart.
C25_MutationFrame ==
    [][/\ appState'.trackingStart = appState.trackingStart
       /\ last'.op \in DayOps =>
             /\ SameExcept(appState.days, appState'.days, last'.key)
             /\ last'.key \in DOMAIN appState'.days
             /\ appState'.weekPlans = appState.weekPlans
             /\ appState'.fastPlans = appState.fastPlans
             /\ appState'.confirmedWeeks = appState.confirmedWeeks
             /\ appState'.confirmedMonths = appState.confirmedMonths
       /\ last'.op \in PlanOps =>
             /\ appState'.days = appState.days
             /\ appState'.dayKeys = appState.dayKeys
       /\ last'.op \in {"updateWeekPlan", "confirmWeekPlan"} =>
             /\ SameExcept(appState.weekPlans, appState'.weekPlans, last'.key)
             /\ SameExcept(appState.confirmedWeeks, appState'.confirmedWeeks,
                           last'.key)
             /\ appState'.fastPlans = appState.fastPlans
             /\ appState'.confirmedMonths = appState.confirmedMonths
       /\ last'.op = "confirmWeekPlan" =>
             appState'.weekPlans = appState.weekPlans
       /\ last'.op \in {"updateFastPlan", "confirmMonthPlan"} =>
             /\ SameExcept(appState.fastPlans, appState'.fastPlans, last'.key)
             /\ SameExcept(appState.confirmedMonths, appState'.confirmedMonths,
                           last'.key)
             /\ appState'.weekPlans = appState.weekPlans
             /\ appState'.confirmedWeeks = appState.confirmedWeeks
       /\ last'.op = "confirmMonthPlan" =>
             appState'.fastPlans = appState.fastPlans]_vars

\* C25 witness: setDayValue wrote an answer for one day while another day
\* holds a different record, and plans and a confirmation are stored
C25_Witness ==
    /\ last.op = "setDayValue"
    /\ last.key \in DOMAIN appState.days
    /\ appState.days[last.key][last.field] # "null"
    /\ \E d \in DOMAIN appState.days \ {last.key} :
          appState.days[d][last.field] # appState.days[last.key][last.field]
    /\ appState.weekPlans # EmptyMap
    /\ appState.fastPlans # EmptyMap
    /\ \E k \in DOMAIN appState.confirmedWeeks : appState.confirmedWeeks[k]

\* the entries of the map under the given keys
Keep(map, keys) == [k \in DOMAIN map \cap keys |-> map[k]]

YesterdayWeek == SundayOf(today - 1)

YesterdayMonth == <<Yesterday[1], Yesterday[2]>>

\* what is left of a snapshot when everything is dropped but the current
\* month's and week's plan and flag, trackingStart, yesterday's record and
\* the plans of yesterday's week and month
GateView(s) ==
    [days |-> Keep(s.days, {Yesterday}),
     dayKeys |-> IF Yesterday \in DOMAIN s.days THEN <<Yesterday>> ELSE <<>>,
     weekPlans |-> Keep(s.weekPlans, {ThisWeek, YesterdayWeek}),
     fastPlans |-> Keep(s.fastPlans, {ThisMonth, YesterdayMonth}),
     trackingStart |-> s.trackingStart,
     confirmedWeeks |-> Keep(s.confirmedWeeks, {ThisWeek}),
     confirmedMonths |-> Keep(s.confirmedMonths, {ThisMonth})]

\* C26: the gate result for today is the result on the part of the snapshot
\* named in GateView, so snapshots with the same view have the same gate
\* result; and with today fixed, a mutation of a day other than yesterday,
\* of a week key other than the current and yesterday's, or of a month key
\* other than the current and yesterday's, leaves the gate result as it was.
C26_GateDependsOnView ==
    /\ [](getBlockingOverlay(appState, today)
            = getBlockingOverlay(GateView(appState), today))
    /\ [][today' = today =>
             /\ (last'.op \in DayOps /\ last'.key # Yesterday) =>
                   GateNext = Gate
             /\ (/\ last'.op \in {"updateWeekPlan", "confirmWeekPlan"}
                 /\ last'.key \notin {ThisWeek, YesterdayWeek}) =>
                   GateNext = Gate
             /\ (/\ last'.op \in {"updateFastPlan", "confirmMonthPlan"}
                 /\ last'.key \notin {ThisMonth, YesterdayMonth}) =>
                   GateNext = Gate]_vars

\* C26 witness: on the first of a month the snapshot holds more than its
\* view, and the gate asks for yesterday only because the plan of
\* yesterday's month, just replaced, makes yesterday a fast day
C26_Witness ==
    /\ YesterdayMonth # ThisMonth
    /\ last.op = "updateFastPlan"
    /\ last.key = YesterdayMonth
    /\ isFastDay(appState, Yesterday)
    /\ Gate = [type |-> "yesterday", key |-> Yesterday]
    /\ getBlockingOverlay([appState EXCEPT !.fastPlans = Keep(@, {ThisMonth})],
                          today).type = "none"
    /\ GateView(appState) # appState

====
